---- MODULE Spec2Model ----
(***************************************************************************)
(* A* search of aufgabe1.py: the AStarSearch object built from one problem *)
(* file, the a_star loop over its frontier, and main, which runs the three *)
(* heuristic modes in turn and saves each solution; and the batch runner   *)
(* of run_tests.py, which runs main on every problem file of a directory.  *)
(*                                                                         *)
(* Numbers.  Edge costs and g-costs are integers.  Heuristic values and    *)
(* frontier priorities are fixed-point numbers in units of 1/Scale, so     *)
(* that (l^2 + a^2) ** 0.5 keeps its irrational values apart from the      *)
(* integers around them: priority = g * Scale + h.                         *)
(***************************************************************************)
EXTENDS Integers, Sequences, FiniteSets, TLC

\* ------------------------------------------------------------ bounds
MaxCost  == 1      \* edge costs are drawn from 0..MaxCost
MaxEdges == 4      \* a problem file lists at most this many edges
MaxLos   == 1      \* line_of_sight_distance is drawn from 0..MaxLos
MaxAlt   == 1      \* altitude_difference is drawn from 0..MaxAlt
MaxAux   == 1      \* at most this many cities carry non-zero heuristic data
NumFiles == 3      \* run_tests.py: the problem files of the directory

\* Fixed-point unit of heuristic values and priorities.
Scale == 100

Cities == {"A", "B", "C", "D"}
\* The start of every problem drawn.  Its entry is alone in the frontier when
\* it is popped, so its key takes no part in the order of the pops.
StartCity == "A"

\* Python compares the city keys as strings; for one-letter keys that is
\* the order of the letters.
CityOrd(c) == CASE c = "A" -> 1 [] c = "B" -> 2 [] c = "C" -> 3 [] OTHER -> 4

Modes == <<"no", "simple", "advanced">>
OutputFiles == <<"aufgabe1-1.yaml", "aufgabe1-2.yaml", "aufgabe1-3.yaml">>

NoInfo == [missing |-> TRUE]
None == "None"
\* An output file that has not been written.
NoFile == [written |-> FALSE]
\* run_and_validate_outputs is not running.
NoBatch == [at |-> "idle"]

VARIABLES
    city_start,      \* self.city_start
    city_end,        \* self.city_end
    connections,     \* self.connections: city with a block -> (neighbor -> cost)
    heuristic_info,  \* self.heuristic_info: city -> NoInfo or its two attributes
    pc,              \* main: 1..3 the mode about to run or running, 4 finished, 0 failed
    running,         \* TRUE while a_star is inside its while loop
    heuristic_values,\* a_star: city -> h, fixed-point
    frontier,        \* a_star: the heap, as the ascending sequence of its entries
    explored,        \* a_star: set of expanded cities
    came_from,       \* a_star: city -> predecessor, None when absent
    g_costs,         \* a_star: city -> cost, -1 when absent
    popped,          \* history: the entries popped by the running a_star call
    raised,          \* the exception that ended main, None when there is none
    files,           \* output file name -> solution written, NoFile when not written
    unexpanded,      \* history: cities not expanded since their g-cost was last set
    batch            \* run_tests.py: the state of run_and_validate_outputs

vars == <<city_start, city_end, connections, heuristic_info, pc, running,
          heuristic_values, frontier, explored, came_from, g_costs, popped,
          raised, files, unexpanded, batch>>

graph == <<city_start, city_end, connections, heuristic_info>>

\* ------------------------------------------------------------ inputs
\* The edges a problem file may list: from a city to another one.
Pairs == {p \in Cities \X Cities : p[1] # p[2]}
Edges == {<<p[1], p[2], c>> : p \in Pairs, c \in 0..MaxCost}

RECURSIVE EdgeSets(_)
EdgeSets(k) ==
    IF k = 0 THEN {{}}
    ELSE LET prev == EdgeSets(k - 1)
         IN  prev \cup UNION {{s \cup {e} :
                        e \in {x \in Edges : \A y \in s : <<y[1], y[2]>> # <<x[1], x[2]>>}} :
                        s \in prev}

RECURSIVE Reach(_, _)
Reach(es, r) ==
    LET n == r \cup {e[2] : e \in {x \in es : x[1] \in r}}
    IN  IF n = r THEN r ELSE Reach(es, n)

\* Edge lists are drawn up to what a search from StartCity can see: every
\* edge leaves a city that is reachable from the start.
EdgeLists == {es \in EdgeSets(MaxEdges) : \A e \in es : e[1] \in Reach(es, {StartCity})}

\* __init__, lines 32-35: the connects_to blocks of a file listing the edges
\* es.  A city without outgoing edges has an empty block when emptyBlocks,
\* and no block at all otherwise.
Blocks(es, emptyBlocks) ==
    LET withEdges == {e[1] : e \in es}
        dom == IF emptyBlocks THEN Cities ELSE withEdges
    IN  [c \in dom |->
            [n \in {e[2] : e \in {x \in es : x[1] = c}} |->
                (CHOOSE e \in es : e[1] = c /\ e[2] = n)[3]]]

Graphs == {Blocks(es, b) : es \in EdgeLists, b \in BOOLEAN}

ZeroInfo == [line_of_sight_distance |-> 0, altitude_difference |-> 0]
InfoValues == {NoInfo} \cup
    [line_of_sight_distance : 0..MaxLos, altitude_difference : 0..MaxAlt]
InfoMaps == {f \in [Cities -> InfoValues] :
                Cardinality({c \in Cities : f[c] # ZeroInfo}) <= MaxAux}

\* ------------------------------------------------------------ heuristic
\* x ** 0.5 in fixed point: the integer part of Scale * sqrt(n).
Sqrt(n) == CHOOSE r \in 0..(n * Scale) :
               r * r <= n * Scale * Scale /\ n * Scale * Scale < (r + 1) * (r + 1)

HasInfo(city) == heuristic_info[city] # NoInfo

\* heuristic(city, mode); the lookup of heuristic_info[city] raises KeyError
\* when the city has no data, which Begin decides before it evaluates this.
heuristic(city, mode) ==
    CASE mode = "no" -> 0
      [] mode = "simple" -> heuristic_info[city].line_of_sight_distance * Scale
      [] mode = "advanced" ->
            LET line_of_sight_distance == heuristic_info[city].line_of_sight_distance
                altitude_difference == heuristic_info[city].altitude_difference
            IN  Sqrt(line_of_sight_distance * line_of_sight_distance
                     + altitude_difference * altitude_difference)

\* ------------------------------------------------------------ heap
\* The comparison of tuples pushed as (city, priority): the key decides first.
Less_KeyFirst(x, y) == \/ CityOrd(x[2]) < CityOrd(y[2])
                       \/ x[2] = y[2] /\ x[1] < y[1]

\* Python's comparison of the (priority, city) tuples.
Less(x, y) == \/ x[1] < y[1]
              \/ x[1] = y[1] /\ CityOrd(x[2]) < CityOrd(y[2])

\* A list used as a queue: the item goes to the end, whatever its priority.
heappush_Append(heap, item) == Append(heap, item)

\* heapq.heappush: the heap is held as the ascending sequence of its
\* entries, so that heappop is Head and Tail.
heappush(heap, item) ==
    LET k == Cardinality({i \in 1..Len(heap) : ~Less(item, heap[i])})
    IN  SubSeq(heap, 1, k) \o <<item>> \o SubSeq(heap, k + 1, Len(heap))

\* ------------------------------------------------------------ a_star
\* reconstruct_path without line 110: the path is left goal first.
reconstruct_path_NoReverse(cf) ==
    LET RECURSIVE back(_, _)
        back(current, path) ==
            IF cf[current] # None /\ Len(path) <= Cardinality(Cities)
            THEN back(cf[current], path \o <<current>>)
            ELSE path \o <<city_start>>
    IN  back(city_end, <<>>)

\* reconstruct_path, lines 102-111.  The guard on the length stands for a
\* walk that never ends (a cycle of predecessors).
reconstruct_path(cf) ==
    LET RECURSIVE back(_, _)
        back(current, path) ==
            IF cf[current] # None /\ Len(path) <= Cardinality(Cities)
            THEN back(cf[current], <<current>> \o path)
            ELSE <<city_start>> \o path
    IN  back(city_end, <<>>)

\* line 91 without its second test: a known city is never relaxed again.
Improves_OnlyUndiscovered(g, neighbor, tentative_g_cost) ==
    g[neighbor] = -1

\* line 91 with <= for <: an equal cost also replaces the recorded one.
Improves_OrEqual(g, neighbor, tentative_g_cost) ==
    g[neighbor] = -1 \/ tentative_g_cost <= g[neighbor]

\* line 91
Improves(g, neighbor, tentative_g_cost) ==
    g[neighbor] = -1 \/ tentative_g_cost < g[neighbor]

\* line 94 without the g-cost: the frontier is ordered by the heuristic alone.
Priority_HeuristicOnly(tentative_g_cost, neighbor) ==
    heuristic_values[neighbor]

\* line 94
Priority(tentative_g_cost, neighbor) ==
    tentative_g_cost * Scale + heuristic_values[neighbor]

\* lines 89-95 with line 92 run only for a city met for the first time: a
\* later improvement lowers the g-cost and keeps the old predecessor.
RelaxOne_KeepsFirstPredecessor(st, current, neighbor) ==
    LET move_cost == connections[current][neighbor]
        tentative_g_cost == st.g[current] + move_cost
    IN  IF st.g[neighbor] = -1 \/ tentative_g_cost < st.g[neighbor]
        THEN [g  |-> [st.g EXCEPT ![neighbor] = tentative_g_cost],
              cf |-> IF st.g[neighbor] = -1
                     THEN [st.cf EXCEPT ![neighbor] = current] ELSE st.cf,
              fr |-> heappush(st.fr, <<tentative_g_cost * Scale
                                        + heuristic_values[neighbor], neighbor>>)]
        ELSE st

\* lines 89-95 with line 95 run only for a city met for the first time: a
\* later improvement is recorded and not pushed.
RelaxOne_PushesOnlyNew(st, current, neighbor) ==
    LET move_cost == connections[current][neighbor]
        tentative_g_cost == st.g[current] + move_cost
    IN  IF st.g[neighbor] = -1 \/ tentative_g_cost < st.g[neighbor]
        THEN [g  |-> [st.g EXCEPT ![neighbor] = tentative_g_cost],
              cf |-> [st.cf EXCEPT ![neighbor] = current],
              fr |-> IF st.g[neighbor] = -1
                     THEN heappush(st.fr, <<tentative_g_cost * Scale
                                            + heuristic_values[neighbor], neighbor>>)
                     ELSE st.fr]
        ELSE st

\* lines 89-95: one neighbor of current, on the local state st = (g, cf, fr)
RelaxOne(st, current, neighbor) ==
    LET move_cost == connections[current][neighbor]
        tentative_g_cost == st.g[current] + move_cost
    IN  IF Improves(st.g, neighbor, tentative_g_cost)
        THEN [g  |-> [st.g EXCEPT ![neighbor] = tentative_g_cost],
              cf |-> [st.cf EXCEPT ![neighbor] = current],
              fr |-> heappush(st.fr, <<Priority(tentative_g_cost, neighbor), neighbor>>)]
        ELSE st

\* line 88: the for loop over the neighbors of current, in key order (each
\* neighbor is a key of its own and costs are not negative, so the order of
\* the dict does not change the outcome).
RECURSIVE Relax(_, _, _)
Relax(current, todo, st) ==
    IF todo = {} THEN st
    ELSE LET neighbor == CHOOSE n \in todo : \A m \in todo : CityOrd(n) <= CityOrd(m)
         IN  Relax(current, todo \ {neighbor}, RelaxOne(st, current, neighbor))

\* lines 75-83 with line 85 moved above the goal test: the goal is counted.
Solution_GoalExplored ==
    [cost |-> g_costs[city_end],
     path |-> reconstruct_path(came_from),
     expanded_nodes |-> Cardinality(explored \cup {city_end}),
     heuristic |-> heuristic_values]

\* lines 75-83 with len(g_costs) for len(explored): every discovered city is
\* counted.
Solution_CountsDiscovered ==
    [cost |-> g_costs[city_end],
     path |-> reconstruct_path(came_from),
     expanded_nodes |-> Cardinality({c \in Cities : g_costs[c] # -1}),
     heuristic |-> heuristic_values]

\* lines 75-83 counting every expansion, repeated ones included.
Solution_CountsPops ==
    [cost |-> g_costs[city_end],
     path |-> reconstruct_path(came_from),
     expanded_nodes |-> Len(popped),
     heuristic |-> heuristic_values]

\* lines 75-83
Solution ==
    [cost |-> g_costs[city_end],
     path |-> reconstruct_path(came_from),
     expanded_nodes |-> Cardinality(explored),
     heuristic |-> heuristic_values]

ErrHeuristic == "KeyError: heuristic_info"
ErrConnections == "KeyError: connections"
ErrNoPath == "ValueError: No path found from start to goal."

\* An exception leaves a_star and main (lines 136-137).
Fail(e) ==
    /\ raised' = e
    /\ pc' = 0
    /\ running' = FALSE

\* lines 61-68 with line 65 replaced by a set kept on the object: the cities
\* explored by earlier calls are still in it.
Begin_KeepsExplored ==
    /\ pc \in 1..Len(Modes)
    /\ ~running
    /\ popped' = <<>>
    /\ LET mode == Modes[pc]
       IN  IF mode # "no" /\ \E c \in Cities : ~HasInfo(c)
           THEN /\ Fail(ErrHeuristic)
                /\ UNCHANGED <<heuristic_values, frontier, explored, came_from, g_costs,
                               unexpanded>>
           ELSE /\ heuristic_values' = [c \in Cities |-> heuristic(c, mode)]
                /\ frontier' = <<  <<heuristic(city_start, mode), city_start>>  >>
                /\ explored' = explored
                /\ came_from' = [c \in Cities |-> None]
                /\ g_costs' = [c \in Cities |-> IF c = city_start THEN 0 ELSE -1]
                /\ unexpanded' = {city_start}
                /\ running' = TRUE
                /\ UNCHANGED <<pc, raised>>
    /\ UNCHANGED <<graph, files, batch>>

\* main calls a_star with the mode of pc; a_star lines 61-68.
Begin ==
    /\ pc \in 1..Len(Modes)
    /\ ~running
    /\ popped' = <<>>
    /\ LET mode == Modes[pc]
       IN  IF mode # "no" /\ \E c \in Cities : ~HasInfo(c)
           THEN /\ Fail(ErrHeuristic)
                /\ UNCHANGED <<heuristic_values, frontier, explored, came_from, g_costs,
                               unexpanded>>
           ELSE /\ heuristic_values' = [c \in Cities |-> heuristic(c, mode)]
                /\ frontier' = <<  <<heuristic(city_start, mode), city_start>>  >>
                /\ explored' = {}
                /\ came_from' = [c \in Cities |-> None]
                /\ g_costs' = [c \in Cities |-> IF c = city_start THEN 0 ELSE -1]
                /\ unexpanded' = {city_start}
                /\ running' = TRUE
                /\ UNCHANGED <<pc, raised>>
    /\ UNCHANGED <<graph, files, batch>>

\* save_solution, lines 18-21, as main calls it after the run of pc.
save_solution(filename, solution) ==
    files' = [files EXCEPT ![filename] = solution]

\* lines 71-83: the goal is popped, a_star returns; main saves the solution
\* and goes on to the next mode.
Return ==
    /\ running
    /\ frontier # <<>>
    /\ Head(frontier)[2] = city_end
    /\ popped' = Append(popped, Head(frontier))
    /\ frontier' = Tail(frontier)
    /\ save_solution(OutputFiles[pc], Solution)
    /\ pc' = pc + 1
    /\ running' = FALSE
    /\ UNCHANGED <<graph, heuristic_values, explored, came_from, g_costs, raised,
                   unexpanded, batch>>

\* lines 71-95: another city is popped and expanded.
Expand ==
    /\ running
    /\ frontier # <<>>
    /\ Head(frontier)[2] # city_end
    /\ LET current_city == Head(frontier)[2]
       IN  /\ popped' = Append(popped, Head(frontier))
           /\ explored' = explored \cup {current_city}
           /\ IF current_city \notin DOMAIN connections
              THEN /\ Fail(ErrConnections)
                   /\ frontier' = Tail(frontier)
                   /\ UNCHANGED <<came_from, g_costs, unexpanded>>
              ELSE \E st \in {Relax(current_city, DOMAIN connections[current_city],
                                     [g |-> g_costs, cf |-> came_from, fr |-> Tail(frontier)])} :
                       /\ g_costs' = st.g
                       /\ came_from' = st.cf
                       /\ frontier' = st.fr
                       /\ unexpanded' = (unexpanded \ {current_city})
                                          \cup {c \in Cities : g_costs'[c] # g_costs[c]}
                       /\ UNCHANGED <<pc, running, raised>>
    /\ UNCHANGED <<graph, heuristic_values, files, batch>>

\* lines 70 and 100: the frontier is empty.
Exhausted ==
    /\ running
    /\ frontier = <<>>
    /\ Fail(ErrNoPath)
    /\ UNCHANGED <<graph, heuristic_values, frontier, explored, came_from,
                   g_costs, popped, files, unexpanded, batch>>

\* The AStarSearch object main builds from one problem file (lines 120-122).
Init ==
    /\ heuristic_info \in InfoMaps
    /\ connections \in Graphs
    /\ city_start = StartCity
    /\ city_end \in Cities
    /\ pc = 1
    /\ running = FALSE
    /\ heuristic_values = [c \in Cities |-> 0]
    /\ frontier = <<>>
    /\ explored = {}
    /\ came_from = [c \in Cities |-> None]
    /\ g_costs = [c \in Cities |-> -1]
    /\ popped = <<>>
    /\ raised = None
    /\ files = [f \in {OutputFiles[i] : i \in 1..Len(OutputFiles)} |-> NoFile]
    /\ unexpanded = {}
    /\ batch = NoBatch

Next == Begin \/ Return \/ Expand \/ Exhausted

Spec == Init /\ [][Next]_vars

\* ------------------------------------------------------------ the chain
\* The problem files of the chain A -> B -> C with both costs 1 and goal C:
\* without any heuristic data, or with a line of sight of up to MaxLos + 1
\* for A, B and C.  main runs on them as on the files of Init.
ChainGraphs == {Blocks({<<"A", "B", 1>>, <<"B", "C", 1>>}, b) : b \in BOOLEAN}

ChainInfos ==
    {[c \in Cities |-> NoInfo]} \cup
    {[c \in Cities |->
        [line_of_sight_distance |-> IF c = "A" THEN a ELSE IF c = "B" THEN b
                                    ELSE IF c = "C" THEN d ELSE 0,
         altitude_difference |-> 0]] :
        a \in 0..(MaxLos + 1), b \in 0..(MaxLos + 1), d \in 0..(MaxLos + 1)}

InitChain ==
    /\ heuristic_info \in ChainInfos
    /\ connections \in ChainGraphs
    /\ city_start = StartCity
    /\ city_end = "C"
    /\ pc = 1
    /\ running = FALSE
    /\ heuristic_values = [c \in Cities |-> 0]
    /\ frontier = <<>>
    /\ explored = {}
    /\ came_from = [c \in Cities |-> None]
    /\ g_costs = [c \in Cities |-> -1]
    /\ popped = <<>>
    /\ raised = None
    /\ files = [f \in {OutputFiles[i] : i \in 1..Len(OutputFiles)} |-> NoFile]
    /\ unexpanded = {}
    /\ batch = NoBatch

SpecChain == (Init \/ InitChain) /\ [][Next]_vars

\* ------------------------------------------------------------ run_tests.py
\* run_and_validate_outputs.  batch holds its state: at (where it is in the
\* loop body), i (the problem file of the iteration, in the order of the
\* glob), validator (validator_name is not None), todo (the outputs of the
\* folder that the validation loop has still to come to), cwd (the output
\* files of
\* the working directory), folders (those of every problem's folder), log
\* (what was printed), and as history attempts (solve steps per file),
\* wrote (outputs saved by the solve step of each file), failed (files whose
\* solve step failed), invalid (outputs whose validation failed) and
\* folders0 (the folders as they were found).  A file is told by who wrote
\* it: the solve step of problem file k of this call, or somebody before the
\* call, Old in a folder and Leftover in the working directory.
Absent == 0
Old == NumFiles + 1
Leftover == NumFiles + 2
Outputs == 1..Len(OutputFiles)

main_vars == <<city_start, city_end, connections, heuristic_info, pc, running,
               heuristic_values, frontier, explored, came_from, g_costs, popped,
               raised, files, unexpanded>>

\* The heuristic data of the problem files of the batch: none, or all zero.
BatchInfos == {[c \in Cities |-> NoInfo], [c \in Cities |-> ZeroInfo]}

\* line 20 going to the next problem file, line 54 after the last one.
Advance(b) ==
    IF b.i = NumFiles
    THEN [b EXCEPT !.at = "done", !.i = b.i + 1,
                   !.log = Append(b.log, <<"Processing and validation completed.", 0, 0>>)]
    ELSE [b EXCEPT !.at = "loop", !.i = b.i + 1]

\* lines 20-29: the folder of the file is made and the solver is started on
\* the file: a process of main with nothing written yet.
BatchLaunch ==
    /\ batch.at = "loop"
    /\ batch' = [batch EXCEPT !.at = "solving", !.attempts[batch.i] = @ + 1]
    /\ heuristic_info' \in BatchInfos
    /\ connections' \in ChainGraphs
    /\ city_start' = StartCity
    /\ city_end' \in Cities
    /\ pc' = 1
    /\ running' = FALSE
    /\ heuristic_values' = [c \in Cities |-> 0]
    /\ frontier' = <<>>
    /\ explored' = {}
    /\ came_from' = [c \in Cities |-> None]
    /\ g_costs' = [c \in Cities |-> -1]
    /\ popped' = <<>>
    /\ raised' = None
    /\ files' = [f \in {OutputFiles[i] : i \in 1..Len(OutputFiles)} |-> NoFile]
    /\ unexpanded' = {}

\* What the solver has left in the working directory: the files it saved
\* replace those of the same name.
AfterSolve(b) ==
    [b EXCEPT !.cwd = [f \in Outputs |->
                        IF files[OutputFiles[f]] # NoFile THEN b.i ELSE b.cwd[f]],
              !.wrote[b.i] = Cardinality({f \in Outputs : files[OutputFiles[f]] # NoFile})]

\* lines 30-32 with break for continue: the first failure ends the loop.
OnSolveError_Break(b) ==
    [b EXCEPT !.at = "done",
              !.failed = @ \cup {b.i},
              !.log = Append(b.log, <<"Error running", b.i, 0>>)]

\* lines 30-32 without the continue: the outputs are moved all the same.
OnSolveError_FallsThrough(b) ==
    [b EXCEPT !.at = "move",
              !.failed = @ \cup {b.i},
              !.log = Append(b.log, <<"Error running", b.i, 0>>)]

\* lines 30-32: CalledProcessError is printed, the loop continues.
OnSolveError(b) ==
    Advance([b EXCEPT !.failed = @ \cup {b.i},
                      !.log = Append(b.log, <<"Error running", b.i, 0>>)])

\* lines 29-32: the solver has ended, with exit status 0 after main has
\* saved the third solution and with another one after an exception.
BatchCollect ==
    /\ batch.at = "solving"
    /\ ~running
    /\ pc \in {0, Len(Modes) + 1}
    /\ batch' = IF pc = 0 THEN OnSolveError(AfterSolve(batch))
                ELSE [AfterSolve(batch) EXCEPT !.at = "move"]
    /\ UNCHANGED main_vars

\* lines 35-43: every output file found in the working directory replaces
\* the one of the folder; a missing one is warned about.
RECURSIVE MoveLog(_, _, _)
MoveLog(b, f, log) ==
    IF f > Len(OutputFiles) THEN log
    ELSE MoveLog(b, f + 1,
                 IF b.cwd[f] # Absent THEN log
                 ELSE Append(log, <<"Warning: Expected output file not found", b.i, f>>))

BatchMove ==
    /\ batch.at = "move"
    /\ LET moved == [batch EXCEPT
                        !.folders[batch.i] = [f \in Outputs |->
                            IF batch.cwd[f] # Absent THEN batch.cwd[f] ELSE @[f]],
                        !.cwd = [f \in Outputs |-> Absent],
                        !.log = MoveLog(batch, 1, batch.log)]
           found == {f \in Outputs : moved.folders[batch.i][f] # Absent}
       IN  batch' = IF moved.validator /\ found # {}
                    THEN [moved EXCEPT !.at = "validate", !.todo = found]
                    ELSE Advance(moved)
    /\ UNCHANGED main_vars

\* lines 47-52, one iteration: the validator is run on the next output of
\* the folder and its verdict v is printed.  The outputs come in the order
\* of folder_path.glob, which is the order of the directory: any output
\* still to do (todo) can be the next.  After the last one the loop over the
\* problem files goes on.
BatchValidate ==
    /\ batch.at = "validate"
    /\ \E f \in batch.todo, v \in BOOLEAN :
          LET done == [batch EXCEPT
                          !.todo = @ \ {f},
                          !.log = Append(@, <<IF v THEN "Validation passed"
                                             ELSE "Validation failed", batch.i, f>>),
                          !.invalid = IF v THEN @ ELSE @ \cup {<<batch.i, f>>}]
          IN  batch' = IF done.todo = {} THEN Advance(done) ELSE done
    /\ UNCHANGED main_vars

\* run_and_validate_outputs is called: the working directory and the folders
\* hold no output files or old ones; no solver is running.
InitBatch ==
    /\ \E validator \in BOOLEAN, c \in {Absent, Leftover} :
       \E fs \in {[k \in 1..NumFiles |-> [f \in Outputs |-> o]] : o \in {Absent, Old}} :
          batch = [at |-> "loop", i |-> 1, validator |-> validator, todo |-> {},
                   cwd |-> [f \in Outputs |-> c],
                   folders |-> fs, folders0 |-> fs,
                   log |-> <<>>,
                   attempts |-> [k \in 1..NumFiles |-> 0],
                   wrote |-> [k \in 1..NumFiles |-> 0],
                   failed |-> {}, invalid |-> {}]
    /\ heuristic_info = [c \in Cities |-> ZeroInfo]
    /\ connections \in {Blocks({}, TRUE)}
    /\ city_start = StartCity
    /\ city_end = StartCity
    /\ pc = 0
    /\ running = FALSE
    /\ heuristic_values = [c \in Cities |-> 0]
    /\ frontier = <<>>
    /\ explored = {}
    /\ came_from = [c \in Cities |-> None]
    /\ g_costs = [c \in Cities |-> -1]
    /\ popped = <<>>
    /\ raised = None
    /\ files = [f \in {OutputFiles[i] : i \in 1..Len(OutputFiles)} |-> NoFile]
    /\ unexpanded = {}

NextBatch ==
    \/ BatchLaunch \/ Begin \/ Return \/ Expand \/ Exhausted
    \/ BatchCollect \/ BatchMove \/ BatchValidate

SpecBatch == InitBatch /\ [][NextBatch]_vars

\* ------------------------------------------------------------ repeated calls
\* a_star is a method of the object main built: after a call has returned it
\* can be called again.  Recall picks for the next call any mode that has
\* returned before; the call itself is Begin, Expand, Return as in main, and
\* its result is kept where main keeps the result of that mode.
Recall ==
    /\ ~running
    /\ pc \in 2..(Len(Modes) + 1)
    /\ \E i \in 1..Len(Modes) :
          /\ files[OutputFiles[i]] # NoFile
          /\ pc' = i
    /\ UNCHANGED <<graph, running, heuristic_values, frontier, explored, came_from,
                   g_costs, popped, raised, files, unexpanded, batch>>

\* The objects of the repeated calls: the problem files of Init with fewer
\* than MaxEdges edges.
GraphsCalls == {Blocks(es, b) : es \in {x \in EdgeLists : Cardinality(x) < MaxEdges},
                               b \in BOOLEAN}

InitCalls ==
    /\ heuristic_info \in InfoMaps
    /\ connections \in GraphsCalls
    /\ city_start = StartCity
    /\ city_end \in Cities
    /\ pc = 1
    /\ running = FALSE
    /\ heuristic_values = [c \in Cities |-> 0]
    /\ frontier = <<>>
    /\ explored = {}
    /\ came_from = [c \in Cities |-> None]
    /\ g_costs = [c \in Cities |-> -1]
    /\ popped = <<>>
    /\ raised = None
    /\ files = [f \in {OutputFiles[i] : i \in 1..Len(OutputFiles)} |-> NoFile]
    /\ unexpanded = {}
    /\ batch = NoBatch

NextCalls == Begin \/ Return \/ Expand \/ Exhausted \/ Recall

SpecCalls == InitCalls /\ [][NextCalls]_vars

\* ------------------------------------------------------------ properties
\* What the claims speak of: the true cheapest costs of the graph.
Infinity == Cardinality(Cities) * (MaxCost + 1)

EdgeCost(a, b) ==
    IF a \in DOMAIN connections /\ b \in DOMAIN connections[a]
    THEN connections[a][b] ELSE Infinity

MinOf(S) == CHOOSE x \in S : \A y \in S : x <= y

\* The cheapest cost of a path from a to b of at most k edges.
RECURSIVE Cheapest(_, _, _)
Cheapest(a, b, k) ==
    IF a = b THEN 0
    ELSE IF k = 0 THEN Infinity
    ELSE MinOf({Infinity} \cup
               {EdgeCost(a, n) + Cheapest(n, b, k - 1) :
                    n \in {m \in Cities : EdgeCost(a, m) < Infinity}})

TrueCost(a, b) == MinOf({Infinity, Cheapest(a, b, Cardinality(Cities) - 1)})
MinCost == TrueCost(city_start, city_end)
GoalReachable == MinCost < Infinity

\* The run of mode i has just returned: main holds its solution and has not
\* yet begun the next run, so the a_star variables are those of that run.
Returned(i) == ~running /\ pc = i + 1
Result(i) == files[OutputFiles[i]]
Failed == pc = 0
Finished == pc = Len(Modes) + 1

\* The heuristic values of the current run never overestimate.
Admissible ==
    \A c \in Cities : TrueCost(c, city_end) < Infinity =>
                         heuristic_values[c] <= TrueCost(c, city_end) * Scale

IsEdge(a, b) == EdgeCost(a, b) < Infinity

RECURSIVE PathCost(_)
PathCost(path) ==
    IF Len(path) <= 1 THEN 0
    ELSE EdgeCost(path[1], path[2]) + PathCost(Tail(path))

\* C1: whenever a_star returns under an admissible heuristic (mode NONE
\* included), the returned cost is the minimum cost over all paths from
\* start to goal.
C1_OptimalCost ==
    \A i \in 1..Len(Modes) :
        (Returned(i) /\ Admissible) => Result(i).cost = MinCost

\* A run with a non-zero admissible heuristic returned a path of two or
\* more edges that is cheaper than the direct edge from start to goal.
C1_Witness ==
    /\ Returned(2)
    /\ Admissible
    /\ \E c \in Cities : heuristic_values[c] > 0
    /\ Len(Result(2).path) >= 3
    /\ IsEdge(city_start, city_end)
    /\ EdgeCost(city_start, city_end) > Result(2).cost

\* C2: for every result a_star returns, whatever the heuristic values, the
\* edge costs along the returned path add up to the returned cost.
C2_PathCostIsCost ==
    \A i \in 1..Len(Modes) :
        Returned(i) => PathCost(Result(i).path) = Result(i).cost

\* A run under a heuristic that overestimates returned a path of two or more
\* edges whose cost is positive and not the minimum.
C2_Witness ==
    /\ Returned(3)
    /\ ~Admissible
    /\ Len(Result(3).path) >= 3
    /\ Result(3).cost > MinCost
    /\ PathCost(Result(3).path) = Result(3).cost

\* C3: every returned path begins with the start, ends with the goal, and
\* each pair of consecutive cities is an edge of the graph.
C3_PathIsWalk ==
    \A i \in 1..Len(Modes) :
        Returned(i) =>
            LET path == Result(i).path
            IN  /\ Len(path) >= 1
                /\ path[1] = city_start
                /\ path[Len(path)] = city_end
                /\ \A k \in 1..(Len(path) - 1) : IsEdge(path[k], path[k + 1])

\* A returned path over three edges.
C3_Witness ==
    /\ Returned(1)
    /\ Len(Result(1).path) = 4
    /\ \A k \in 1..3 : IsEdge(Result(1).path[k], Result(1).path[k + 1])

\* C4 as claimed: whenever the NONE run and the ADVANCED run both return, they
\* return the same cost, whatever the heuristic data.
C4_Claim ==
    Finished => Result(1).cost = Result(3).cost

\* C4, amended: the NONE run and the ADVANCED run return the same cost
\* whenever both return and the ADVANCED heuristic values are admissible.
C4_SameCostIfAdmissible ==
    Finished => (Result(1).cost = Result(3).cost \/ ~Admissible)

\* Both runs returned the same positive cost under an admissible ADVANCED
\* heuristic with an irrational value, and the ADVANCED run expanded less.
C4_Witness ==
    /\ Finished
    /\ Admissible
    /\ \E c \in Cities : heuristic_values[c] % Scale # 0
    /\ Result(1).cost > 0
    /\ Result(1).cost = Result(3).cost
    /\ Result(3).expanded_nodes < Result(1).expanded_nodes

\* The cities other than the goal whose cheapest cost from the start equals
\* the minimum cost to the goal: the NONE run may stop before it expands them.
Ties == {c \in Cities \ {city_end} : TrueCost(city_start, c) = MinCost}

\* C5 as claimed: a run under an admissible heuristic never expands more
\* cities than the NONE run on the same graph.
C5_Claim ==
    \A i \in 2..Len(Modes) :
        (Returned(i) /\ Admissible) =>
            Result(i).expanded_nodes <= Result(1).expanded_nodes

\* C5, amended: a run under an admissible heuristic expands at most as many
\* cities as the NONE run plus the number of cities, other than the goal,
\* whose cheapest cost from the start equals the minimum cost to the goal;
\* without such a tie it never expands more than the NONE run.
C5_NoMoreUpToTies ==
    \A i \in 2..Len(Modes) :
        Returned(i) =>
            \/ Result(i).expanded_nodes <= Result(1).expanded_nodes
            \/ ~Admissible
            \/ Result(i).expanded_nodes <= Result(1).expanded_nodes + Cardinality(Ties)

\* An admissible non-zero heuristic on a graph without ties saved expansions.
C5_Witness ==
    /\ Returned(2)
    /\ Admissible
    /\ \E c \in Cities : heuristic_values[c] > 0
    /\ Ties = {}
    /\ Result(2).expanded_nodes < Result(1).expanded_nodes

\* C6 as claimed: when the goal is not reachable, a_star returns no result
\* and ends with the no-path error, not with another failure.
C6_Claim ==
    ~GoalReachable =>
        /\ \A i \in 1..Len(Modes) : Result(i) = NoFile
        /\ Failed => raised = ErrNoPath

\* C7 as claimed: when the goal is reachable, the a_star loop does not end
\* in an error (the only failure left is the missing heuristic data of C9,
\* raised before the loop).
C7_Claim ==
    GoalReachable => raised \in {None, ErrHeuristic}

\* C8: when start and goal are the same city, a run fails only for missing
\* heuristic data; otherwise it pops the start entry alone and returns cost
\* 0, path [start] and expanded_nodes 0, with nothing explored.
C8_StartIsGoal ==
    city_start = city_end =>
        /\ raised \in {None, ErrHeuristic}
        /\ running => frontier = << <<heuristic_values[city_start], city_start>> >>
        /\ \A i \in 1..Len(Modes) :
              Returned(i) =>
                 /\ Result(i).cost = 0
                 /\ Result(i).path = <<city_start>>
                 /\ Result(i).expanded_nodes = 0
                 /\ explored = {}
                 /\ Len(popped) = 1

\* All three modes returned on a graph whose start, which is the goal, has
\* outgoing edges and a non-zero heuristic value.
C8_Witness ==
    /\ Finished
    /\ city_start = city_end
    /\ city_start \in DOMAIN connections
    /\ DOMAIN connections[city_start] # {}
    /\ heuristic_values[city_start] > 0
    /\ Result(1).path = <<city_start>>

SomeCityWithoutInfo == \E c \in Cities : ~HasInfo(c)

\* C9 as claimed: when a city has no heuristic data, SIMPLE and ADVANCED
\* fail before any entry is popped, and NONE succeeds whenever a path exists.
C9_Claim ==
    SomeCityWithoutInfo =>
        /\ Result(2) = NoFile /\ Result(3) = NoFile
        /\ raised = ErrHeuristic => popped = <<>>
        /\ GoalReachable => raised \in {None, ErrHeuristic}

\* C10 as claimed: when one of the three searches of main fails, no output
\* file has been written.
C10_Claim ==
    Failed => \A i \in 1..Len(OutputFiles) : Result(i) = NoFile
\* C11: a_star never changes the graph data of the object (cities, start,
\* goal, connections, heuristic data), and a call repeated with a mode that
\* has returned before, whatever calls came in between, returns again and
\* with the identical result record: it does not fail, and the result kept
\* for that mode is the same record after the call as before it.
C11_FrameAndIdempotent ==
    [][/\ graph' = graph
       /\ \A i \in 1..Len(Modes) :
            Result(i) # NoFile =>
                /\ files'[OutputFiles[i]] = Result(i)
                /\ (pc = i => pc' # 0)]_vars

\* The last call was one of the second mode (the heuristic values are its
\* values, not those of the third) and it returned while the result of the
\* third mode was there: it was a repeated call, with a call of another mode
\* since the first one, and its search expanded cities.
C11_Witness ==
    /\ ~running /\ pc = 3
    /\ Result(3) # NoFile
    /\ heuristic_values = [c \in Cities |-> heuristic(c, "simple")]
    /\ heuristic_values # [c \in Cities |-> heuristic(c, "advanced")]
    /\ Result(2).expanded_nodes >= 2

\* The heuristic values of the running call are consistent: along every edge
\* they fall by no more than the cost of the edge.
Consistent ==
    \A a \in DOMAIN connections : \A b \in DOMAIN connections[a] :
        heuristic_values[a] <= connections[a][b] * Scale + heuristic_values[b]

\* The number of frontier entries of city c.
Entries(fr, c) == Cardinality({k \in 1..Len(fr) : fr[k][2] = c})

\* No step of the loop revives a finalized city: its g-cost and predecessor
\* stay and it gets no new frontier entry.
NoRevival ==
    \A c \in explored :
        /\ g_costs'[c] = g_costs[c]
        /\ came_from'[c] = came_from[c]
        /\ Entries(frontier', c) <= Entries(frontier, c)

\* C12 as stated: during any run, whatever the (non-negative) heuristic
\* values, a city that has been finalized (added to explored) is never
\* revived: its g-cost is never lowered again, its predecessor never changed,
\* and no new frontier entry is pushed for it.
C12_Claim == [][running => NoRevival]_vars

\* C12 amended: during a run whose heuristic values are consistent (all zero
\* in the mode without heuristic), a finalized city is never revived.
C12_NoRevivalIfConsistent == [][running /\ Consistent => NoRevival]_vars

\* A run with consistent heuristic values that are not all zero has just
\* expanded a city with an edge into another finalized city, over which that
\* city is reached at exactly its recorded g-cost: line 91 has turned it down.
C12_Witness ==
    /\ running /\ Consistent
    /\ \E c \in Cities : heuristic_values[c] > 0
    /\ popped # <<>>
    /\ LET last == popped[Len(popped)][2]
       IN  /\ last \in DOMAIN connections
           /\ \E c \in (explored \ {last}) \cap DOMAIN connections[last] :
                g_costs[last] + connections[last][c] = g_costs[c]

\* The variant of a_star that C13 compares with: lines 70-95 with a popped
\* city that is already in explored skipped before line 85.  v is its local
\* state (g, cf, fr, ex); the value is what the variant returns or raises.
RECURSIVE VariantLoop(_)
VariantLoop(v) ==
    IF v.fr = <<>> THEN [raised |-> ErrNoPath]
    ELSE LET current_city == Head(v.fr)[2]
             rest == Tail(v.fr)
         IN  IF current_city = city_end
             THEN [cost |-> v.g[city_end],
                   path |-> reconstruct_path(v.cf),
                   expanded_nodes |-> Cardinality(v.ex)]
             ELSE IF current_city \in v.ex
             THEN VariantLoop([v EXCEPT !.fr = rest])
             ELSE IF current_city \notin DOMAIN connections
             THEN [raised |-> ErrConnections]
             ELSE LET st == Relax(current_city, DOMAIN connections[current_city],
                                  [g |-> v.g, cf |-> v.cf, fr |-> rest])
                  IN  VariantLoop([g |-> st.g, cf |-> st.cf, fr |-> st.fr,
                                   ex |-> v.ex \cup {current_city}])

\* The variant run on the graph with the heuristic values of the current call.
VariantResult ==
    VariantLoop([g  |-> [c \in Cities |-> IF c = city_start THEN 0 ELSE -1],
                 cf |-> [c \in Cities |-> None],
                 fr |-> <<  <<heuristic_values[city_start], city_start>>  >>,
                 ex |-> {}])

\* What a_star returned in the call of mode i, without the heuristic values.
Outcome(i) ==
    [cost |-> Result(i).cost, path |-> Result(i).path,
     expanded_nodes |-> Result(i).expanded_nodes]

\* C13 as stated: for every graph and every mode, the variant that skips a
\* popped city already finalized returns the same cost, path and
\* expanded_nodes as a_star.
C13_Claim ==
    \A i \in 1..Len(Modes) : Returned(i) => VariantResult = Outcome(i)

\* C13 amended: it does whenever the heuristic values of the call are
\* consistent.
C13_SameAsVariantIfConsistent ==
    \A i \in 1..Len(Modes) :
        Returned(i) /\ Consistent => VariantResult = Outcome(i)

\* A call with consistent heuristic values, not all zero, has returned after
\* popping some city twice: a_star expanded it again where the variant
\* skips it.
C13_Witness ==
    /\ \E i \in 1..Len(Modes) : Returned(i)
    /\ Consistent
    /\ \E c \in Cities : heuristic_values[c] > 0
    /\ \E j, k \in 1..Len(popped) : j < k /\ popped[j][2] = popped[k][2]

\* C14: every pop removes from the frontier an entry that is minimal in the
\* lexicographic order of (priority, city key): no entry has a lower
\* priority, and none of the same priority has a smaller key, in whatever
\* order the entries were pushed.
C14_PopsMinimum ==
    [][Len(popped') = Len(popped) + 1 =>
        LET e == popped'[Len(popped')]
        IN  /\ \E k \in 1..Len(frontier) : frontier[k] = e
            /\ \A k \in 1..Len(frontier) :
                  \/ e[1] < frontier[k][1]
                  \/ e[1] = frontier[k][1] /\ CityOrd(e[2]) <= CityOrd(frontier[k][2])]_vars

\* Two entries of the same priority are ahead in the frontier after a pop:
\* the one of the smaller key was pushed by the expansion just made, the
\* other one by an earlier expansion; the smaller key is the next to be popped.
C14_Witness ==
    /\ running
    /\ popped # <<>>
    /\ Len(frontier) >= 2
    /\ LET last == popped[Len(popped)][2]
           first == frontier[1]
           second == frontier[2]
       IN  /\ first[1] = second[1]
           /\ CityOrd(first[2]) < CityOrd(second[2])
           /\ came_from[first[2]] = last
           /\ first[1] = g_costs[first[2]] * Scale + heuristic_values[first[2]]
           /\ came_from[second[2]] # last

\* The cities popped by the current call before its last pop.
PoppedBeforeLast == {popped[k][2] : k \in 1..(Len(popped) - 1)}

\* C15: the expanded_nodes of a result is the number of distinct cities
\* popped before the first pop of the goal, the goal itself not counted.
\* On the chain A -> B -> C (costs 1, goal C) the mode without heuristic
\* returns cost 2, path A, B, C and 2 expanded nodes, and the simple mode
\* with heuristic values 2, 1, 0 for A, B, C returns the same cost and path
\* and at most 2 expanded nodes.
C15_ExpandedNodes ==
    /\ \A i \in 1..Len(Modes) : Returned(i) =>
          /\ popped[Len(popped)][2] = city_end
          /\ city_end \notin PoppedBeforeLast
          /\ Result(i).expanded_nodes = Cardinality(PoppedBeforeLast)
    /\ connections \in ChainGraphs /\ city_end = "C" =>
          /\ Returned(1) =>
                /\ Result(1).cost = 2
                /\ Result(1).path = <<"A", "B", "C">>
                /\ Result(1).expanded_nodes = 2
          /\ Returned(2) /\ heuristic_values = [c \in Cities |->
                    IF c = "A" THEN 2 * Scale ELSE IF c = "B" THEN Scale ELSE 0] =>
                /\ Result(2).cost = 2
                /\ Result(2).path = <<"A", "B", "C">>
                /\ Result(2).expanded_nodes <= 2

\* The simple mode has returned on the chain with the heuristic values 2, 1, 0.
C15_Witness ==
    /\ Returned(2)
    /\ connections \in ChainGraphs /\ city_end = "C"
    /\ heuristic_values = [c \in Cities |->
            IF c = "A" THEN 2 * Scale ELSE IF c = "B" THEN Scale ELSE 0]
    /\ Cardinality(PoppedBeforeLast) = 2

\* C16: the batch runner attempts each problem file exactly once and in
\* turn; a failure of the solve step or of a validation step of one file is
\* reported and does not keep the following files from being processed (the
\* run goes on until the loop is done, and then every file has been
\* attempted); a file whose solve step failed has none of its outputs
\* relocated into a folder.  When the run is done every output of a solved
\* file has got its verdict, whatever the verdicts given before it.
C16_EachFileOnce ==
    /\ \A k \in 1..NumFiles :
          batch.attempts[k] =
             IF k < batch.i \/ (k = batch.i /\ batch.at # "loop") THEN 1 ELSE 0
    /\ \A k \in batch.failed :
          \E n \in 1..Len(batch.log) : batch.log[n] = <<"Error running", k, 0>>
    /\ \A x \in batch.invalid :
          \E n \in 1..Len(batch.log) : batch.log[n] = <<"Validation failed", x[1], x[2]>>
    /\ batch.at = "done" => \A k \in 1..NumFiles : batch.attempts[k] = 1
    /\ batch.at # "done" => ENABLED NextBatch
    /\ \A k \in batch.failed : \A j \in 1..NumFiles : \A f \in Outputs :
          batch.folders[j][f] # k
    /\ (batch.at = "done" /\ batch.validator) =>
          \A k \in 1..NumFiles \ batch.failed :
             \A f \in Outputs : batch.folders[k][f] # Absent =>
                Cardinality({n \in 1..Len(batch.log) :
                    /\ batch.log[n][1] \in {"Validation passed", "Validation failed"}
                    /\ batch.log[n][2] = k
                    /\ batch.log[n][3] = f}) = 1

\* The run is done after the solve step of the first file failed, the
\* second file was solved, its outputs relocated and the second of them
\* found invalid before the first was validated, and the solve step of the last file failed after it had written
\* an output, which is still in the working directory.
C16_Witness ==
    /\ batch.at = "done"
    /\ 1 \in batch.failed
    /\ \E n \in 1..Len(batch.log) : batch.log[n] = <<"Error running", 1, 0>>
    /\ \A f \in Outputs : batch.folders[2][f] = 2
    /\ \E f \in Outputs : <<2, f>> \in batch.invalid
    /\ \E n, m \in 1..Len(batch.log) :
          /\ n < m
          /\ batch.log[n] = <<"Validation failed", 2, 2>>
          /\ batch.log[m][2] = 2 /\ batch.log[m][3] = 1
          /\ batch.log[m][1] \in {"Validation passed", "Validation failed"}
    /\ NumFiles \in batch.failed
    /\ batch.wrote[NumFiles] >= 1
    /\ \E f \in Outputs : batch.cwd[f] = NumFiles
    /\ batch.folders[NumFiles] = batch.folders0[NumFiles]

\* C17: at the start of every iteration of the loop, every frontier entry
\* (p, n) is for a city n with a recorded g-cost and p is at least
\* g_costs[n] + h(n); and every discovered city that has not been expanded
\* since its g-cost was last set has a frontier entry whose priority is
\* exactly g_costs[n] + h(n).
C17_FrontierInvariant ==
    running =>
        /\ \A k \in 1..Len(frontier) :
              LET p == frontier[k][1]
                  n == frontier[k][2]
              IN  /\ g_costs[n] # -1
                  /\ p >= g_costs[n] * Scale + heuristic_values[n]
        /\ unexpanded = {n \in Cities : g_costs[n] # -1} \ (explored \ unexpanded)
        /\ \A n \in unexpanded :
              \E k \in 1..Len(frontier) :
                  frontier[k] = <<g_costs[n] * Scale + heuristic_values[n], n>>

\* An iteration starts, under heuristic values that are not all zero, with
\* a frontier that holds an outdated entry (its priority is above g + h of
\* its city) besides the current entry of the same city, and with more than
\* one city waiting to be expanded.
C17_Witness ==
    /\ running
    /\ \E c \in Cities : heuristic_values[c] > 0
    /\ \E k \in 1..Len(frontier) :
          /\ frontier[k][2] \in unexpanded
          /\ frontier[k][1] > g_costs[frontier[k][2]] * Scale
                                 + heuristic_values[frontier[k][2]]
    /\ Cardinality(unexpanded) >= 2

\* Following the predecessors from city n reaches the start without coming
\* to a city twice.
RECURSIVE ReachesStart(_, _)
ReachesStart(n, seen) ==
    IF n = city_start THEN TRUE
    ELSE IF n \in seen \/ came_from[n] = None THEN FALSE
    ELSE ReachesStart(came_from[n], seen \cup {n})

\* C18: throughout a run the start never gets a predecessor and its g-cost
\* stays 0; every other discovered city has a predecessor (exactly one, the
\* one recorded) and an undiscovered one has none; and following the
\* predecessors from any discovered city reaches the start without
\* repeating a city, so that reconstruct_path always terminates, zero-cost
\* edges and cycles included.
C18_PredecessorTree ==
    running =>
        /\ came_from[city_start] = None
        /\ g_costs[city_start] = 0
        /\ \A n \in Cities \ {city_start} : (g_costs[n] # -1) <=> (came_from[n] # None)
        /\ \A n \in Cities : g_costs[n] # -1 => ReachesStart(n, {})

\* A run has expanded a city that closes a cycle of zero-cost edges through
\* the start: it was reached at g-cost 0 over at least two edges and has an
\* edge of cost 0 back to the start.
C18_Witness ==
    /\ running
    /\ \E n \in explored \ {city_start} :
          /\ g_costs[n] = 0
          /\ came_from[n] # city_start
          /\ n \in DOMAIN connections
          /\ city_start \in DOMAIN connections[n]
          /\ connections[n][city_start] = 0

\* C19: every output file relocated into the folder of a problem file was
\* written by the solve step of that same problem file: a folder holds what
\* it held when the run began or outputs of its own file, never an output
\* that an earlier file, or anybody before the run, left in the working
\* directory.
C19_OwnOutputsOnly ==
    \A k \in 1..NumFiles : \A f \in Outputs :
        \/ batch.folders[k][f] = batch.folders0[k][f]
        \/ batch.folders[k][f] = k

\* The solve step of the first file failed after it had written an output,
\* which it left in the working directory; the second file was then solved
\* and its three outputs were relocated into its folder, which had held old
\* outputs.
C19_Witness ==
    /\ 1 \in batch.failed
    /\ batch.wrote[1] >= 1
    /\ 2 \notin batch.failed
    /\ \A f \in Outputs : batch.folders0[2][f] = Old /\ batch.folders[2][f] = 2

====
